---------------------------- MODULE Spec2Model ----------------------------
(***************************************************************************)
(* A model of the txtar reader/writer of src/src/lib.rs: the Splitter      *)
(* (split_file_markers), the Archive Builder (From<&str>, File::new,       *)
(* Archive::new, fix_newline), the Formatter (Display, to_writer) and the  *)
(* Materializer (Archive::materialize) over a small file system.           *)
(*                                                                         *)
(* Text is a sequence of one-character strings.                            *)
(***************************************************************************)
EXTENDS Integers, Sequences, FiniteSets, TLC

VARIABLES
    pc,        \* where the program is: "start", "built", "panicked", ...
    input,     \* the &str handed to Archive::from
    raw,       \* the (comment, <<(name, data)>>) handed to Archive::new / File::new
    archive,   \* the Archive value, once built
    text,      \* what to_string() returned, or NoText
    written,   \* the bytes to_writer() put in the sink, or NoText
    reparsed,  \* Archive::from(text), once computed
    fsDirs,    \* the file system: the directories, as absolute paths
    fsFiles,   \* the file system: path -> content of each regular file
    calls,     \* how many times materialize has been called
    idx,       \* materialize: the index of the entry of the for loop
    path,      \* materialize: the local `path` of line 86, once joined
    handle,    \* materialize: the path the local `file` of line 91 is open on
    buf,       \* materialize: the bytes held by the BufWriter `w` of line 95
    results    \* what each finished materialize call returned, in order

parse_vars == <<input, text, written, reparsed>>
fs_vars == <<fsDirs, fsFiles>>
mat_vars == <<calls, idx, path, handle, buf, results>>
vars == <<pc, input, raw, archive, text, written, reparsed,
          fsDirs, fsFiles, calls, idx, path, handle, buf, results>>

(***************************************************************************)
(* Bounds of the model.                                                    *)
(***************************************************************************)
MaxLines == 3
MaxFiles == 2
MaxCalls == 2

(***************************************************************************)
(* Characters and the three constants of the format.                       *)
(***************************************************************************)
LF == "\n"
CR == "\r"

NEWLINE_MARKER == <<LF, "-", "-", " ">>
MARKER == <<"-", "-", " ">>
MARKER_END == <<" ", "-", "-">>

\* Option::None for a text or a pair of texts, and a text not yet produced: one-element
\* sequences no text equals, since a text holds single characters only
None == <<"None">>
NoText == <<"NoText">>
\* what a panicking split_file_markers leaves instead of its triple
SplitPanic == <<"panic">>
\* no Archive yet, and the Archive that a panicking Archive::from never returned
NoArchive == [none |-> TRUE]
NoRaw == [none |-> TRUE]
Panic == [panic |-> TRUE]

(***************************************************************************)
(* The str methods the Splitter uses.                                      *)
(***************************************************************************)
starts_with(s, p) == Len(s) >= Len(p) /\ SubSeq(s, 1, Len(p)) = p

ends_with(s, p) == Len(s) >= Len(p) /\ SubSeq(s, Len(s) - Len(p) + 1, Len(s)) = p

\* str::find: the byte offset of the first match, or -1 for None
find(s, p) ==
    LET hits == {i \in 0..(Len(s) - Len(p)) : SubSeq(s, i + 1, i + Len(p)) = p}
    IN  IF hits = {} THEN -1
        ELSE CHOOSE i \in hits : \A j \in hits : i <= j

\* str::split_at(mid): (s[..mid], s[mid..])
split_at(s, mid) == <<SubSeq(s, 1, mid), SubSeq(s, mid + 1, Len(s))>>

\* str::split_once(c): the text before and after the first c, or None
split_once(s, c) ==
    LET at == find(s, <<c>>)
    IN  IF at = -1 THEN None
        ELSE <<SubSeq(s, 1, at), SubSeq(s, at + 2, Len(s))>>

\* str::trim_end_matches(c): every trailing c removed
RECURSIVE trim_end_matches(_, _)
trim_end_matches(s, c) ==
    IF s # <<>> /\ s[Len(s)] = c
    THEN trim_end_matches(SubSeq(s, 1, Len(s) - 1), c)
    ELSE s

strip_prefix(s, p) ==
    IF starts_with(s, p) THEN SubSeq(s, Len(p) + 1, Len(s)) ELSE None

strip_suffix(s, p) ==
    IF ends_with(s, p) THEN SubSeq(s, 1, Len(s) - Len(p)) ELSE None

(***************************************************************************)
(* The Splitter.  The result is SplitPanic when the code panics (the       *)
(* debug_assert of line 140 in a debug build, the unwrap of line 145 in    *)
(* every build: a failed assert implies a failed strip_suffix, so both     *)
(* builds panic on the same inputs), else <<prefix, name, suffix>>.        *)
(***************************************************************************)
split_file_markers(s) ==
    LET at == find(s, NEWLINE_MARKER)
        cut == IF starts_with(s, MARKER) THEN <<<<>>, s>>
               ELSE IF at = -1 THEN None
               ELSE split_at(s, at + 1)
    IN  IF cut = None THEN <<s, <<>>, <<>>>>
        ELSE
        LET prefix == cut[1]
            rest == cut[2]
            line == split_once(rest, LF)
        IN  IF line = None /\ ~ends_with(rest, MARKER_END) THEN <<s, <<>>, <<>>>>
            ELSE
            LET name0 == IF line = None THEN rest ELSE line[1]
                suffix == IF line = None THEN <<>> ELSE line[2]
                name1 == trim_end_matches(name0, CR)
                inner == strip_prefix(name1, MARKER)
                name == IF inner = None THEN None ELSE strip_suffix(inner, MARKER_END)
            IN  IF name = None THEN SplitPanic ELSE <<prefix, name, suffix>>

(***************************************************************************)
(* Newline normalization and the two constructors.                         *)
(***************************************************************************)
\* a slip: the newline is pushed whatever the segment holds
fix_newline_always(s) == Append(s, LF)

fix_newline(s) ==
    IF s # <<>> /\ ~ends_with(s, <<LF>>) THEN Append(s, LF) ELSE s

FileNew(name, data) == [name |-> name, data |-> fix_newline(data)]

ArchiveNew(comment, files) == [comment |-> fix_newline(comment), files |-> files]

(***************************************************************************)
(* The Builder: Archive::from.  FromLoop is the while loop of lines        *)
(* 108-116; a panic of the Splitter unwinds out of from.                   *)
(***************************************************************************)
RECURSIVE FromLoop(_, _, _, _)
FromLoop(comment, name, s, files) ==
    IF name = <<>> THEN ArchiveNew(comment, files)
    ELSE LET r == split_file_markers(s)
         IN  IF r = SplitPanic THEN Panic
             ELSE FromLoop(comment, r[2], r[3], Append(files, FileNew(name, r[1])))

ArchiveFrom(s) ==
    LET r == split_file_markers(s)
    IN  IF r = SplitPanic THEN Panic
        ELSE FromLoop(r[1], r[2], r[3], <<>>)

(***************************************************************************)
(* The Formatter.                                                          *)
(***************************************************************************)
RECURSIVE Concat(_)
Concat(ss) == IF ss = <<>> THEN <<>> ELSE Head(ss) \o Concat(Tail(ss))

\* the characters the model's texts are made of; every other byte is not
\* part of a valid UTF-8 sequence here
Chars == {LF, CR, "-", " ", "a", "b", "c", "x", "/", "."}
REPLACEMENT_CHARACTER == "U+FFFD"

from_utf8_lossy(bytes) ==
    [i \in 1..Len(bytes) |->
        IF bytes[i] \in Chars THEN bytes[i] ELSE REPLACEMENT_CHARACTER]

\* impl Display for Archive
Display(a) ==
    from_utf8_lossy(a.comment)
    \o Concat([i \in 1..Len(a.files) |->
                  MARKER \o from_utf8_lossy(a.files[i].name) \o MARKER_END \o <<LF>>
                  \o from_utf8_lossy(a.files[i].data)])

\* Archive::to_writer into a sink that accepts every byte
ToWriterBytes(a) ==
    a.comment
    \o Concat([i \in 1..Len(a.files) |-> a.files[i].name \o a.files[i].data])

(***************************************************************************)
(* The inputs: texts of at most MaxLines lines, each line one of Lines,    *)
(* joined by newlines, with or without a final newline.                    *)
(***************************************************************************)
Delim(n) == MARKER \o n \o MARKER_END

Lines ==
    { <<>>,                               \* an empty line
      <<"a">>,                            \* content
      <<"a", CR>>,                        \* content ending in a carriage return
      Delim(<<"a">>),                     \* -- a --
      Delim(<<"b">>),                     \* -- b --
      Delim(<<"a">>) \o <<CR>>,           \* -- a --\r
      Delim(<<>>),                        \* --  --   (an empty name)
      <<"-", "-", " ", "-", "-">>,        \* -- --    (the markers overlap)
      MARKER \o <<"a">>,                  \* -- a     (never terminated)
      <<"a">> \o Delim(<<"a">>) }         \* a-- a -- (not at the start of a line)

RECURSIVE Join(_)
Join(ls) ==
    IF ls = <<>> THEN <<>>
    ELSE IF Len(ls) = 1 THEN ls[1]
    ELSE ls[1] \o <<LF>> \o Join(Tail(ls))

\* what File::new and Archive::new are given by a caller
RawSegs == { <<>>, <<"x">>, <<"x", LF>> }
RawNames == { <<"a">>, <<"b">> }

(***************************************************************************)
(* Paths.  A path of the file system is a sequence of component names      *)
(* below "/"; a path the program holds is a text, read through             *)
(* Path::components.                                                       *)
(***************************************************************************)
SLASH == "/"
DOT == <<".">>
DOTDOT == <<".", ".">>

\* the text between the separators, empty pieces included
RECURSIVE SplitOn(_, _)
SplitOn(s, c) ==
    LET at == find(s, <<c>>)
    IN  IF at = -1 THEN <<s>>
        ELSE <<SubSeq(s, 1, at)>> \o SplitOn(SubSeq(s, at + 2, Len(s)), c)

RECURSIVE JoinWith(_, _)
JoinWith(parts, c) ==
    IF parts = <<>> THEN <<>>
    ELSE IF Len(parts) = 1 THEN parts[1]
    ELSE parts[1] \o <<c>> \o JoinWith(Tail(parts), c)

ButLast(q) == SubSeq(q, 1, Len(q) - 1)

\* path_clean::clean, the lexical cleaning of Go's path.Clean: empty and "."
\* elements go, "x/.." goes, ".." at the start of a rooted path goes, ".." at
\* the start of a relative path stays, and the empty result is "."
RECURSIVE CleanParts(_, _, _)
CleanParts(parts, out, rooted) ==
    IF parts = <<>> THEN out
    ELSE LET c == Head(parts)
             rest == Tail(parts)
         IN  IF c = <<>> \/ c = DOT THEN CleanParts(rest, out, rooted)
             ELSE IF c = DOTDOT
             THEN IF out # <<>> /\ out[Len(out)] # DOTDOT
                  THEN CleanParts(rest, ButLast(out), rooted)
                  ELSE IF rooted THEN CleanParts(rest, out, rooted)
                  ELSE CleanParts(rest, Append(out, DOTDOT), rooted)
             ELSE CleanParts(rest, Append(out, c), rooted)

clean(s) ==
    LET rooted == starts_with(s, <<SLASH>>)
        out == JoinWith(CleanParts(SplitOn(s, SLASH), <<>>, rooted), SLASH)
    IN  IF rooted THEN <<SLASH>> \o out
        ELSE IF out = <<>> THEN DOT ELSE out

\* Path::components: whether the path has a root, and its other components;
\* empty pieces go, and so does "." anywhere but at the start of a relative path
Components(p) ==
    LET rooted == starts_with(p, <<SLASH>>)
        pieces == SplitOn(p, SLASH)
        keep == {i \in 1..Len(pieces) :
                    /\ pieces[i] # <<>>
                    /\ pieces[i] = DOT => (i = 1 /\ ~rooted)}
        RECURSIVE Pick(_)
        Pick(i) == IF i > Len(pieces) THEN <<>>
                   ELSE IF i \in keep THEN <<pieces[i]>> \o Pick(i + 1)
                   ELSE Pick(i + 1)
    IN  [root |-> rooted, parts |-> Pick(1)]

\* Path::starts_with: base's components are a prefix of p's
path_starts_with(p, base) ==
    LET cp == Components(p)
        cb == Components(base)
    IN  /\ cp.root = cb.root
        /\ Len(cp.parts) >= Len(cb.parts)
        /\ SubSeq(cp.parts, 1, Len(cb.parts)) = cb.parts

is_absolute(p) == Components(p).root

\* Path::join
join(base, rel) ==
    IF is_absolute(rel) THEN rel
    ELSE IF ends_with(base, <<SLASH>>) THEN base \o rel
    ELSE base \o <<SLASH>> \o rel

\* Path::parent: the path without its last component, None when it has none
parent(p) ==
    LET c == Components(p)
    IN  IF c.parts = <<>> THEN None
        ELSE (IF c.root THEN <<SLASH>> ELSE <<>>) \o JoinWith(ButLast(c.parts), SLASH)

\* the destination directory handed to materialize
DestRoot == <<SLASH, "d">>

\* How the kernel walks a path the program hands it: "." stays, ".." goes up
\* (and stays at "/"); there are no symbolic links in the model.
RECURSIVE Walk(_, _)
Walk(parts, at) ==
    IF parts = <<>> THEN at
    ELSE IF Head(parts) = DOT \/ Head(parts) = <<>> THEN Walk(Tail(parts), at)
    ELSE IF Head(parts) = DOTDOT
    THEN Walk(Tail(parts), IF at = <<>> THEN at ELSE ButLast(at))
    ELSE Walk(Tail(parts), Append(at, Head(parts)))

Resolve(p) == Walk(SplitOn(p, SLASH), <<>>)

Exists(q) == q \in fsDirs \/ q \in DOMAIN fsFiles

(***************************************************************************)
(* What materialize returns.                                               *)
(***************************************************************************)
Ok == [kind |-> "Ok"]
DirEscape(p) == [kind |-> "DirEscape", path |-> p]
IoError(e) == [kind |-> "Io", error |-> e]

NoPath == <<"NoPath">>
NoHandle == <<"NoHandle">>

\* the capacity BufWriter::new gives the writer
DEFAULT_BUF_SIZE == 8192

\* two slips: only absolute names are refused; only names that climb are refused
Escapes_absolute_only(name_path) == is_absolute(name_path)
Escapes_parent_only(name_path) == path_starts_with(name_path, <<".", ".", SLASH>>)

\* the escape check of line 79, on the cleaned name
Escapes(name_path) == path_starts_with(name_path, <<".", ".", SLASH>>) \/ is_absolute(name_path)

\* fs::create_dir_all(p): every missing directory down to p is made; a regular
\* file in the way is an error and nothing is made
CreateDirAllError(p) ==
    LET q == Resolve(p)
        blocked == {n \in 1..Len(q) : SubSeq(q, 1, n) \in DOMAIN fsFiles}
    IN  IF blocked = {} THEN "none"
        ELSE IF Len(q) \in blocked THEN "AlreadyExists" ELSE "NotADirectory"

CreateDirAllDirs(p) ==
    LET q == Resolve(p)
    IN  fsDirs \cup {SubSeq(q, 1, n) : n \in 0..Len(q)}

\* a slip: create(true) in place of create_new(true), so that a file in the way
\* is opened instead of refused
OpenError_create(p) ==
    LET q == Resolve(p)
    IN  IF q \in fsDirs THEN "IsADirectory"
        ELSE IF q = <<>> \/ ButLast(q) \notin fsDirs THEN "NotFound"
        ELSE "none"

\* File::options().write(true).create_new(true).open(p)
OpenError(p) ==
    LET q == Resolve(p)
    IN  IF Exists(q) THEN "AlreadyExists"
        ELSE IF q = <<>> \/ ButLast(q) \notin fsDirs THEN "NotFound"
        ELSE "none"

OpenFiles(p) == Resolve(p) :> <<>> @@ fsFiles

(***************************************************************************)
(* The program: build an Archive, then format it and parse the format, or  *)
(* materialize it.                                                         *)
(***************************************************************************)
Init ==
    /\ pc = "start"
    /\ input = NoText
    /\ raw = NoRaw
    /\ archive = NoArchive
    /\ text = NoText
    /\ written = NoText
    /\ reparsed = NoArchive
    /\ fsDirs = {<<>>, Resolve(DestRoot)}
    /\ fsFiles = <<>>
    /\ calls = 0
    /\ idx = 0
    /\ path = NoPath
    /\ handle = NoHandle
    /\ buf = <<>>
    /\ results = <<>>

\* Archive::from(s)
From ==
    /\ pc = "start"
    /\ \E n \in 0..MaxLines : \E ls \in [1..n -> Lines] : \E end \in {<<>>, <<LF>>} :
          /\ input' = Join(ls) \o end
          /\ archive' = ArchiveFrom(input')
          /\ pc' = IF archive' = Panic THEN "panicked" ELSE "built"
    /\ UNCHANGED <<raw, text, written, reparsed, fs_vars, mat_vars>>

\* Archive::new(comment, vec![File::new(name, data), ...])
Build(comments, names, datas) ==
    /\ pc = "start"
    /\ \E c \in comments : \E n \in 0..MaxFiles :
       \E fs \in [1..n -> [name : names, data : datas]] :
          /\ raw' = [comment |-> c, files |-> fs]
          /\ archive' = ArchiveNew(c, [i \in 1..n |-> FileNew(fs[i].name, fs[i].data)])
    /\ pc' = "built"
    /\ UNCHANGED <<parse_vars, fs_vars, mat_vars>>

New == Build(RawSegs, RawNames, RawSegs)

\* archive.to_string()
to_string ==
    /\ pc = "built"
    /\ text = NoText
    /\ text' = Display(archive)
    /\ UNCHANGED <<pc, input, raw, archive, written, reparsed, fs_vars, mat_vars>>

\* archive.to_writer(&mut sink)
to_writer ==
    /\ pc = "built"
    /\ written = NoText
    /\ written' = ToWriterBytes(archive)
    /\ UNCHANGED <<pc, input, raw, archive, text, reparsed, fs_vars, mat_vars>>

\* Archive::from(&archive.to_string())
Reparse ==
    /\ pc = "built"
    /\ text # NoText
    /\ reparsed = NoArchive
    /\ reparsed' = ArchiveFrom(text)
    /\ UNCHANGED <<pc, input, raw, archive, text, written, fs_vars, mat_vars>>

Next == From \/ New \/ to_string \/ to_writer \/ Reparse

Spec == Init /\ [][Next]_vars

(***************************************************************************)
(* The Materializer, one action per step of the for loop of lines 76-97.   *)
(***************************************************************************)
\* the names and contents of the archives that are materialized
PathNames ==
    { <<"a">>,                                               \* a
      <<"b", SLASH, "c">>,                                   \* b/c
      <<"b", SLASH, ".", ".", SLASH, "a">>,                  \* b/../a
      <<".", SLASH, "b", SLASH, SLASH, "c">>,                \* ./b//c
      <<".", ".", SLASH, "a">>,                              \* ../a
      <<SLASH, "a">>,                                        \* /a
      <<"b", SLASH, "c", SLASH, ".", ".", SLASH, ".", ".",
        SLASH, ".", ".", SLASH, "c">>,                       \* b/c/../../../c
      <<>> }                                                 \* the empty name
PathData == { <<>>, <<"x">> }

NewPaths == Build({<<>>}, PathNames, PathData)

\* a file that is in the destination before the first call
Preexisting ==
    /\ pc = "start"
    /\ fsFiles = <<>>
    /\ fsFiles' = Resolve(join(DestRoot, <<"a">>)) :> <<"b", LF>>
    /\ UNCHANGED <<pc, raw, archive, parse_vars, fsDirs, mat_vars>>

Return(r) ==
    /\ results' = Append(results, r)
    /\ pc' = "built"
    /\ idx' = 0
    /\ path' = NoPath
    /\ handle' = NoHandle
    /\ buf' = <<>>

\* archive.materialize(DestRoot) is called
materialize ==
    /\ pc = "built"
    /\ calls < MaxCalls
    /\ calls' = calls + 1
    /\ idx' = 1
    /\ pc' = "entry"
    /\ UNCHANGED <<raw, archive, parse_vars, fs_vars, path, handle, buf, results>>

\* the loop is over: Ok(())
MatReturnOk ==
    /\ pc = "entry"
    /\ idx > Len(archive.files)
    /\ Return(Ok)
    /\ UNCHANGED <<raw, archive, parse_vars, fs_vars, calls>>

\* lines 78-86: clean the name, check it, join it onto the destination
MatCheck ==
    /\ pc = "entry"
    /\ idx <= Len(archive.files)
    /\ LET name_path == clean(from_utf8_lossy(archive.files[idx].name))
       IN  IF Escapes(name_path)
           THEN /\ Return(DirEscape(name_path))
                /\ UNCHANGED calls
           ELSE /\ path' = join(DestRoot, name_path)
                /\ pc' = "dirs"
                /\ UNCHANGED <<calls, idx, handle, buf, results>>
    /\ UNCHANGED <<raw, archive, parse_vars, fs_vars>>

\* lines 87-89: create_dir_all(path.parent())
MatCreateDirAll ==
    /\ pc = "dirs"
    /\ LET p == parent(path)
       IN  IF p = None
           THEN /\ pc' = "open"
                /\ UNCHANGED <<fs_vars, calls, idx, path, handle, buf, results>>
           ELSE IF CreateDirAllError(p) # "none"
           THEN /\ Return(IoError(CreateDirAllError(p)))
                /\ UNCHANGED <<fs_vars, calls>>
           ELSE /\ fsDirs' = CreateDirAllDirs(p)
                /\ pc' = "open"
                /\ UNCHANGED <<fsFiles, calls, idx, path, handle, buf, results>>
    /\ UNCHANGED <<raw, archive, parse_vars>>

\* lines 91-94: open the file, which must be new
MatOpen ==
    /\ pc = "open"
    /\ IF OpenError(path) # "none"
       THEN /\ Return(IoError(OpenError(path)))
            /\ UNCHANGED <<fs_vars, calls>>
       ELSE /\ fsFiles' = OpenFiles(path)
            /\ handle' = Resolve(path)
            /\ pc' = "write"
            /\ UNCHANGED <<fsDirs, calls, idx, path, buf, results>>
    /\ UNCHANGED <<raw, archive, parse_vars>>

\* lines 95-96: w.write_all(data) on a fresh BufWriter: data shorter than the
\* buffer is only copied into it; longer data goes to the file at once, and a
\* failure of that write is returned
MatWriteAll ==
    /\ pc = "write"
    /\ LET data == archive.files[idx].data
       IN  IF Len(data) < DEFAULT_BUF_SIZE
           THEN /\ buf' = data
                /\ pc' = "drop"
                /\ UNCHANGED <<fs_vars, calls, idx, path, handle, results>>
           ELSE \E ok \in BOOLEAN :
                IF ok
                THEN /\ fsFiles' = [fsFiles EXCEPT ![handle] = @ \o data]
                     /\ pc' = "drop"
                     /\ UNCHANGED <<fsDirs, calls, idx, path, handle, buf, results>>
                ELSE /\ Return(IoError("WriteFailed"))
                     /\ UNCHANGED <<fs_vars, calls>>
    /\ UNCHANGED <<raw, archive, parse_vars>>

\* line 97, the end of the loop body: `w` is dropped, which flushes the buffer
\* and ignores a failure of that write, then `file` is closed
MatDrop ==
    /\ pc = "drop"
    /\ \E ok \in BOOLEAN :
          fsFiles' = IF ok THEN [fsFiles EXCEPT ![handle] = @ \o buf] ELSE fsFiles
    /\ buf' = <<>>
    /\ handle' = NoHandle
    /\ path' = NoPath
    /\ idx' = idx + 1
    /\ pc' = "entry"
    /\ UNCHANGED <<raw, archive, parse_vars, fsDirs, calls, results>>

NextMat ==
    \/ NewPaths \/ Preexisting \/ materialize \/ MatReturnOk \/ MatCheck
    \/ MatCreateDirAll \/ MatOpen \/ MatWriteAll \/ MatDrop

SpecMat == Init /\ [][NextMat]_vars

(***************************************************************************)
(* What the claims are stated with.                                        *)
(***************************************************************************)
Built == pc = "built" /\ archive # NoArchive /\ archive # Panic
Parsed == input # NoText /\ pc \in {"built", "panicked"}

\* a segment as the newline rule wants it stored
Terminated(s) == s = <<>> \/ s[Len(s)] = LF
StoredAs(given, stored) ==
    /\ given = <<>> => stored = <<>>
    /\ (given # <<>> /\ given[Len(given)] = LF) => stored = given
    /\ (given # <<>> /\ given[Len(given)] # LF) => stored = given \o <<LF>>

\* the canonical text of an archive: the comment, then per file the line
\* `-- name --`, one newline, and the data
Canonical(a) ==
    a.comment
    \o Concat([i \in 1..Len(a.files) |->
                  <<"-", "-", " ">> \o a.files[i].name \o <<" ", "-", "-", LF>>
                  \o a.files[i].data])

LinesOf(s) == SplitOn(s, LF)
OpensMarker(l) == Len(l) >= 3 /\ SubSeq(l, 1, 3) = <<"-", "-", " ">>
ClosesMarker(l) == Len(l) >= 3 /\ SubSeq(l, Len(l) - 2, Len(l)) = <<" ", "-", "-">>
\* a line of the form `-- name --`
IsDelimiterLine(l) == Len(l) >= 6 /\ OpensMarker(l) /\ ClosesMarker(l)
NameOf(l) == SubSeq(l, 4, Len(l) - 3)
NoCR(s) == \A i \in 1..Len(s) : s[i] # CR

\* the first line that opens with `-- `, or <<"NoLine">> when no line does
FirstOpening(s) ==
    LET ls == LinesOf(s)
        at == {i \in 1..Len(ls) : OpensMarker(ls[i])}
    IN  IF at = {} THEN <<"NoLine">>
        ELSE ls[CHOOSE i \in at : \A j \in at : i <= j]

\* no more sections: no line opens a delimiter, or the first that does is not
\* closed by ` --` (a carriage return before the end of the line aside)
NoMoreSections(s) ==
    \/ FirstOpening(s) = <<"NoLine">>
    \/ ~ClosesMarker(trim_end_matches(FirstOpening(s), CR))

\* C4's inputs: no carriage return, and every line that opens with `-- ` is a
\* delimiter line
LFArchive(s) ==
    /\ NoCR(s)
    /\ \A i \in 1..Len(LinesOf(s)) : OpensMarker(LinesOf(s)[i]) => IsDelimiterLine(LinesOf(s)[i])

RECURSIVE DelimiterNames(_)
DelimiterNames(ls) ==
    IF ls = <<>> THEN <<>>
    ELSE (IF IsDelimiterLine(Head(ls)) THEN <<NameOf(Head(ls))>> ELSE <<>>)
         \o DelimiterNames(Tail(ls))

\* s with the line ending of every delimiter line made CRLF, the last line's
\* too when it is a delimiter line that ends the input
ToCRLF(s) ==
    LET ls == LinesOf(s)
    IN  JoinWith([i \in 1..Len(ls) |->
                    IF IsDelimiterLine(ls[i]) THEN ls[i] \o <<CR>> ELSE ls[i]], LF)

(***************************************************************************)
(* The claims.                                                             *)
(***************************************************************************)

\* C1: parsing is total: Archive::from never panics, and when no line opens a
\* delimiter, or the first such line is not closed by ` --`, split_file_markers
\* returns (input, "", "") and the Archive is the normalized input as comment
\* with no files.
C1_ParsingIsTotal ==
    Parsed =>
        /\ pc = "built"
        /\ split_file_markers(input) # SplitPanic
        /\ NoMoreSections(input) =>
              /\ split_file_markers(input) = <<input, <<>>, <<>>>>
              /\ archive.files = <<>>
              /\ StoredAs(input, archive.comment)

\* C2: to_writer writes the canonical text: the comment, then per file the
\* line `-- name --`, one newline and the data; the same text to_string gives.
C2_WriterWritesCanonicalText ==
    (Built /\ written # NoText) =>
        /\ written = Canonical(archive)
        /\ text # NoText => written = text

\* C3: parse -> serialize -> parse is idempotent: parsing the to_string of
\* Archive::from(s) gives an Archive equal to Archive::from(s).
C3_ReparseIsIdempotent ==
    (Built /\ input # NoText /\ reparsed # NoArchive) => reparsed = archive

\* C4: parsing is lossless for LF-only archives: when s has no carriage return
\* and every line opening with `-- ` is a delimiter line, to_string gives s back
\* (with one newline added when s is non-empty and lacks a final one), and the
\* files are the delimiter lines' names in order.
C4_LosslessForLFArchives ==
    (Parsed /\ LFArchive(input)) =>
        /\ pc = "built"
        /\ [i \in 1..Len(archive.files) |-> archive.files[i].name]
              = DelimiterNames(LinesOf(input))
        /\ text # NoText =>
              text = (IF Terminated(input) THEN input ELSE input \o <<LF>>)

\* C5: newline normalization: the comment and every file's data of a built
\* Archive is empty or ends with a newline, and is what the constructor was
\* given, with exactly one newline appended when that was non-empty and did not
\* end with one.
C5_NewlineNormalized ==
    Built =>
        /\ Terminated(archive.comment)
        /\ \A i \in 1..Len(archive.files) : Terminated(archive.files[i].data)
        /\ raw # NoRaw =>
              /\ StoredAs(raw.comment, archive.comment)
              /\ Len(archive.files) = Len(raw.files)
              /\ \A i \in 1..Len(raw.files) :
                    /\ archive.files[i].name = raw.files[i].name
                    /\ StoredAs(raw.files[i].data, archive.files[i].data)
        /\ input # NoText => StoredAs(split_file_markers(input)[1], archive.comment)

\* C5's case: Archive::new and File::new were given a segment without a final
\* newline, one with it and an empty one
C5_Witness ==
    /\ Built
    /\ raw # NoRaw
    /\ raw.comment = <<"x">> /\ archive.comment = <<"x", LF>>
    /\ Len(raw.files) = 2
    /\ raw.files[1].data = <<"x", LF>> /\ archive.files[1].data = <<"x", LF>>
    /\ raw.files[2].data = <<>> /\ archive.files[2].data = <<>>

\* C6: CRLF delimiter tolerance: with the line ending of every delimiter line
\* made CRLF (a final delimiter line then ends in a carriage return), the input
\* parses to the same Archive.
C6_CRLFDelimitersParseTheSame ==
    (Built /\ input # NoText) => ArchiveFrom(ToCRLF(input)) = archive

\* where entry i of the archive goes, and whether its cleaned name leaves the
\* destination: it is rooted, or its first component is ".."
CleanedName(i) == clean(archive.files[i].name)
Target(i) == Resolve(DestRoot \o <<SLASH>> \o CleanedName(i))
LeavesRoot(i) ==
    \/ CleanedName(i)[1] = SLASH
    \/ CleanedName(i) = <<".", ".">>
    \/ (Len(CleanedName(i)) >= 3 /\ SubSeq(CleanedName(i), 1, 3) = <<".", ".", SLASH>>)
InsideRoot(q) ==
    Len(q) > Len(Resolve(DestRoot)) /\ SubSeq(q, 1, Len(Resolve(DestRoot))) = Resolve(DestRoot)
AtEntry == pc = "entry" /\ idx <= Len(archive.files)

\* C7: escape rejection is fail-fast: the step that reaches an entry whose
\* cleaned name leaves the destination returns DirEscape with the cleaned name
\* and leaves the file system as it is (nothing made for the entry, the earlier
\* entries' files in place, no later entry processed); and DirEscape is
\* returned by no other step.
C7_EscapeStep ==
    /\ (AtEntry /\ LeavesRoot(idx)) =>
          /\ results' = Append(results, DirEscape(CleanedName(idx)))
          /\ pc' = "built"
          /\ fsDirs' = fsDirs
          /\ fsFiles' = fsFiles
    /\ (results' # results /\ results'[Len(results')].kind = "DirEscape") =>
          AtEntry /\ LeavesRoot(idx)
C7_EscapeRejectionFailsFast == [][C7_EscapeStep]_vars

\* C7's case: the second entry, b/c/../../../c, was refused as ../c after the
\* first entry had been written, and the first entry's file is still there
C7_Witness ==
    /\ pc = "built"
    /\ Len(archive.files) = 2
    /\ archive.files[1].name = <<"a">>
    /\ archive.files[2].name =
          <<"b", SLASH, "c", SLASH, ".", ".", SLASH, ".", ".", SLASH, ".", ".", SLASH, "c">>
    /\ results = <<DirEscape(<<".", ".", SLASH, "c">>)>>
    /\ DOMAIN fsFiles = {<<<<"d">>, <<"a">>>>}
    /\ fsFiles[<<<<"d">>, <<"a">>>>] = <<"x", LF>>
    /\ fsDirs = {<<>>, <<<<"d">>>>}

\* C8: containment: every directory and file there is, at every step, is the
\* destination, one of its ancestors that was there from the start, or lies
\* inside the destination.
C8_Containment ==
    \A q \in fsDirs \cup DOMAIN fsFiles :
        q = <<>> \/ q = Resolve(DestRoot) \/ InsideRoot(q)

\* C8's case: names with "." and ".." components were materialized, inside
C8_Witness ==
    /\ pc = "built"
    /\ Len(archive.files) = 2
    /\ archive.files[1].name = <<"b", SLASH, ".", ".", SLASH, "a">>
    /\ archive.files[2].name = <<".", SLASH, "b", SLASH, SLASH, "c">>
    /\ results = <<Ok>>
    /\ DOMAIN fsFiles = {<<<<"d">>, <<"a">>>>, <<<<"d">>, <<"b">>, <<"c">>>>}
    /\ <<<<"d">>, <<"b">>>> \in fsDirs

\* C9: no-clobber: a step changes the content of no file but the one the
\* current entry has created; the file an entry opens did not exist; an entry
\* whose target exists ends the call with the I/O error AlreadyExists and
\* changes nothing; and after a call of a non-empty archive that returned Ok, the
\* next call returns AlreadyExists.
C9_Step ==
    /\ \A q \in DOMAIN fsFiles :
          /\ q \in DOMAIN fsFiles'
          /\ fsFiles'[q] # fsFiles[q] => q = handle
    /\ (handle' # handle /\ handle' # NoHandle) =>
          handle' \notin fsDirs /\ handle' \notin DOMAIN fsFiles
    /\ (pc = "open" /\ (Target(idx) \in fsDirs \/ Target(idx) \in DOMAIN fsFiles)) =>
          /\ results' = Append(results, IoError("AlreadyExists"))
          /\ pc' = "built"
          /\ fsDirs' = fsDirs
          /\ fsFiles' = fsFiles
C9_Twice ==
    (Len(results) >= 2 /\ results[1] = Ok /\ archive.files # <<>>) =>
        results[2] = IoError("AlreadyExists")
C9_NoClobber == []C9_Twice /\ [][C9_Step]_vars

\* C9's case: the archive was materialized twice; the second call failed and
\* the first call's file holds what the first call wrote
C9_Witness ==
    /\ pc = "built"
    /\ Len(archive.files) = 1
    /\ archive.files[1].name = <<"a">>
    /\ results = <<Ok, IoError("AlreadyExists")>>
    /\ fsFiles[<<<<"d">>, <<"a">>>>] = <<"x", LF>>

\* C10: write failures are never swallowed: a call that returned Ok has created
\* every file of the archive with its complete data.
C10_OkMeansWritten ==
    (pc = "built" /\ results # <<>> /\ results[1] = Ok) =>
        \A i \in 1..Len(archive.files) :
            /\ Target(i) \in DOMAIN fsFiles
            /\ fsFiles[Target(i)] = archive.files[i].data

=============================================================================
